---- MODULE Spec2Model ----
(***************************************************************************)
(* Via: a typed fetch wrapper.  The model covers the dispatcher class Via  *)
(* (src/Via.ts, formerly FetchApi.ts), the JSON conversions it calls, the  *)
(* fetch transport it awaits, the contract resolver of src/types.ts, the   *)
(* registry file editing of src/cli/updateRegistry.ts, and the run of the  *)
(* command-line tool (src/cli/index.ts, src/cli/generate.ts).              *)
(*                                                                         *)
(* Texts (URLs, routes, bodies, messages) are sequences of one-character   *)
(* strings, so that concatenation, formatting and parsing are computed.    *)
(***************************************************************************)
EXTENDS Integers, Sequences, FiniteSets, TLC

\* baseUrl:  the #baseUrl field of the Via instance
\* schema:   the schema the registry binds to that base URL
\* calls:    the invocations of get/post/put/delete on the instance
\* resolved: the last contract-resolver query and its answer
\* twin:     a second Via instance, driven by the same calls as the first
\* registry: the registry file src/apiRegistry.ts, as updateRegistry sees it
\* cli:      one run of the command-line tool (src/cli/index.ts)
VARIABLES baseUrl, schema, calls, resolved, twin, registry, cli

vars == <<baseUrl, schema, calls, resolved, twin, registry, cli>>

(***************************************************************************)
(* Bounds of the model.                                                    *)
(***************************************************************************)
\* number of calls that can be in flight on the instance at the same time
MaxCalls == 1

\* number of calls in flight at the same time where concurrency is examined
MaxConcurrent == 2

\* number of times updateRegistry writes the registry file
MaxWrites == 3

(***************************************************************************)
(* Texts.                                                                  *)
(***************************************************************************)
Digits == <<"0", "1", "2", "3", "4", "5", "6", "7", "8", "9">>

IsDigit(ch) == \E i \in 1..Len(Digits) : Digits[i] = ch

DigitValue(ch) == (CHOOSE i \in 1..Len(Digits) : Digits[i] = ch) - 1

\* decimal digits of a natural number, as String(n) / `${n}` write them
RECURSIVE NatToText(_)
NatToText(n) ==
    IF n < 10 THEN <<Digits[n + 1]>>
    ELSE NatToText(n \div 10) \o <<Digits[(n % 10) + 1]>>

\* `${n}` for an integer
NumToText(n) == IF n < 0 THEN <<"-">> \o NatToText(0 - n) ELSE NatToText(n)

\* String.prototype.includes
Contains(text, part) ==
    \E i \in 0..(Len(text) - Len(part)) : SubSeq(text, i + 1, i + Len(part)) = part

StartsWith(text, part) ==
    /\ Len(part) <= Len(text)
    /\ SubSeq(text, 1, Len(part)) = part

Drop(text, n) == SubSeq(text, n + 1, Len(text))

(***************************************************************************)
(* JavaScript values that can be passed as a body or come out of a         *)
(* response.  One record shape for all of them: the tag t says which       *)
(* fields are meaningful.                                                  *)
(***************************************************************************)
MkVal(t, n, s, items, members) ==
    [t |-> t, n |-> n, s |-> s, items |-> items, members |-> members]

Undefined == MkVal("undefined", 0, <<>>, <<>>, <<>>)
JNull == MkVal("null", 0, <<>>, <<>>, <<>>)
JBool(b) == MkVal("bool", IF b THEN 1 ELSE 0, <<>>, <<>>, <<>>)
JNum(n) == MkVal("num", n, <<>>, <<>>, <<>>)
JStr(s) == MkVal("str", 0, s, <<>>, <<>>)
JArr(items) == MkVal("arr", 0, <<>>, items, <<>>)
\* members: a sequence of [k |-> text, v |-> value], in insertion order
JObj(members) == MkVal("obj", 0, <<>>, <<>>, members)
\* the number NaN
JNaN == MkVal("nan", 0, <<>>, <<>>, <<>>)
\* an object one of whose properties refers back to the object itself
Cyclic == MkVal("cyclic", 0, <<>>, <<>>, <<>>)

Member(k, v) == [k |-> k, v |-> v]

(***************************************************************************)
(* JSON.stringify(value), for a value other than undefined.                *)
(***************************************************************************)
QuoteCh == "\""
BackslashCh == "\\"

RECURSIVE EscapeText(_)
EscapeText(s) ==
    IF s = <<>> THEN <<>>
    ELSE (IF Head(s) = QuoteCh \/ Head(s) = BackslashCh
          THEN <<BackslashCh, Head(s)>>
          ELSE <<Head(s)>>) \o EscapeText(Tail(s))

QuoteText(s) == <<QuoteCh>> \o EscapeText(s) \o <<QuoteCh>>

\* JSON.stringify throws a TypeError on a value that reaches itself
RECURSIVE HasCycle(_)
HasCycle(v) ==
    \/ v.t = "cyclic"
    \/ \E i \in 1..Len(v.items) : HasCycle(v.items[i])
    \/ \E i \in 1..Len(v.members) : HasCycle(v.members[i].v)

RECURSIVE Serialize(_), SerializeItems(_), SerializeMembers(_, _)
Serialize(v) ==
    CASE v.t = "null" -> <<"n", "u", "l", "l">>
      [] v.t = "bool" -> IF v.n = 1 THEN <<"t", "r", "u", "e">>
                         ELSE <<"f", "a", "l", "s", "e">>
      [] v.t = "num" -> NumToText(v.n)
      [] v.t = "str" -> QuoteText(v.s)
      [] v.t = "arr" -> <<"[">> \o SerializeItems(v.items) \o <<"]">>
      [] v.t = "obj" -> <<"{">> \o SerializeMembers(v.members, TRUE) \o <<"}">>
      \* NaN and an undefined array element are written as null
      [] OTHER -> <<"n", "u", "l", "l">>

SerializeItems(items) ==
    IF items = <<>> THEN <<>>
    ELSE Serialize(Head(items))
         \o (IF Len(items) > 1 THEN <<",">> ELSE <<>>)
         \o SerializeItems(Tail(items))

\* a member whose value is undefined is left out
SerializeMembers(members, first) ==
    IF members = <<>> THEN <<>>
    ELSE IF Head(members).v.t = "undefined"
         THEN SerializeMembers(Tail(members), first)
         ELSE (IF first THEN <<>> ELSE <<",">>)
              \o QuoteText(Head(members).k) \o <<":">> \o Serialize(Head(members).v)
              \o SerializeMembers(Tail(members), FALSE)

TypeErrorCircular ==
    [name |-> "TypeError",
     message |-> <<"c", "i", "r", "c", "u", "l", "a", "r">>]

NoError == [name |-> "", message |-> <<>>]

\* the outcome of JSON.stringify(v): the text, or the error thrown
MutJsonStringifyAsString(v) ==
    [threw |-> FALSE,
     text |-> IF v.t \in {"obj", "cyclic"}
              THEN <<"[", "o", "b", "j", "e", "c", "t", " ", "O", "b", "j", "e", "c", "t", "]">>
              ELSE Serialize(v),
     error |-> NoError]

JsonStringify(v) ==
    IF HasCycle(v)
    THEN [threw |-> TRUE, text |-> <<>>, error |-> TypeErrorCircular]
    ELSE [threw |-> FALSE, text |-> Serialize(v), error |-> NoError]

(***************************************************************************)
(* response.json(): JSON.parse of the body text.                           *)
(***************************************************************************)
ParseFail == [ok |-> FALSE, v |-> Undefined, rest |-> <<>>]

ParseOk(v, rest) == [ok |-> TRUE, v |-> v, rest |-> rest]

RECURSIVE SkipWs(_)
SkipWs(s) == IF s # <<>> /\ Head(s) = " " THEN SkipWs(Tail(s)) ELSE s

\* the digits at the front of s, read as a number continuing acc
RECURSIVE ParseDigits(_, _)
ParseDigits(s, acc) ==
    IF s # <<>> /\ IsDigit(Head(s))
    THEN ParseDigits(Tail(s), acc * 10 + DigitValue(Head(s)))
    ELSE [n |-> acc, rest |-> s]

\* a JSON number literal (integers): no leading zero before another digit
ParseNumber(s) ==
    LET neg == s # <<>> /\ Head(s) = "-"
        d == IF neg THEN Tail(s) ELSE s
    IN IF d = <<>> \/ ~IsDigit(Head(d)) THEN ParseFail
       ELSE IF Head(d) = "0" /\ Len(d) > 1 /\ IsDigit(d[2]) THEN ParseFail
       ELSE LET r == ParseDigits(d, 0)
            IN ParseOk(JNum(IF neg THEN 0 - r.n ELSE r.n), r.rest)

\* the characters of a string literal after its opening quote
RECURSIVE ParseChars(_, _)
ParseChars(s, acc) ==
    IF s = <<>> THEN ParseFail
    ELSE IF Head(s) = QuoteCh THEN ParseOk(JStr(acc), Tail(s))
    ELSE IF Head(s) = BackslashCh
         THEN IF Len(s) >= 2 /\ (s[2] = QuoteCh \/ s[2] = BackslashCh)
              THEN ParseChars(Drop(s, 2), Append(acc, s[2]))
              ELSE ParseFail
    ELSE ParseChars(Tail(s), Append(acc, Head(s)))

ParseLiteral(s, word, v) ==
    IF StartsWith(s, word) THEN ParseOk(v, Drop(s, Len(word))) ELSE ParseFail

\* obj[k] = v: a repeated key keeps its place and takes the last value
PutMember(members, k, v) ==
    IF \E i \in 1..Len(members) : members[i].k = k
    THEN [i \in 1..Len(members) |->
            IF members[i].k = k THEN Member(k, v) ELSE members[i]]
    ELSE Append(members, Member(k, v))

RECURSIVE ParseValue(_), ParseElements(_, _), ParseMembers(_, _)
ParseValue(s0) ==
    LET s == SkipWs(s0)
    IN IF s = <<>> THEN ParseFail
       ELSE CASE Head(s) = "n" -> ParseLiteral(s, <<"n", "u", "l", "l">>, JNull)
              [] Head(s) = "t" -> ParseLiteral(s, <<"t", "r", "u", "e">>, JBool(TRUE))
              [] Head(s) = "f" ->
                    ParseLiteral(s, <<"f", "a", "l", "s", "e">>, JBool(FALSE))
              [] Head(s) = QuoteCh -> ParseChars(Tail(s), <<>>)
              [] Head(s) = "[" ->
                    LET r == SkipWs(Tail(s))
                    IN IF r # <<>> /\ Head(r) = "]" THEN ParseOk(JArr(<<>>), Tail(r))
                       ELSE ParseElements(r, <<>>)
              [] Head(s) = "{" ->
                    LET r == SkipWs(Tail(s))
                    IN IF r # <<>> /\ Head(r) = "}" THEN ParseOk(JObj(<<>>), Tail(r))
                       ELSE ParseMembers(r, <<>>)
              [] Head(s) = "-" \/ IsDigit(Head(s)) -> ParseNumber(s)
              [] OTHER -> ParseFail

ParseElements(s, acc) ==
    LET e == ParseValue(s)
        r == SkipWs(e.rest)
    IN IF ~e.ok \/ r = <<>> THEN ParseFail
       ELSE IF Head(r) = "," THEN ParseElements(Tail(r), Append(acc, e.v))
       ELSE IF Head(r) = "]" THEN ParseOk(JArr(Append(acc, e.v)), Tail(r))
       ELSE ParseFail

ParseMembers(s0, acc) ==
    LET s == SkipWs(s0)
    IN IF s = <<>> \/ Head(s) # QuoteCh THEN ParseFail
       ELSE LET k == ParseChars(Tail(s), <<>>)
                c == SkipWs(k.rest)
            IN IF ~k.ok \/ c = <<>> \/ Head(c) # ":" THEN ParseFail
               ELSE LET e == ParseValue(Tail(c))
                        r == SkipWs(e.rest)
                        next == PutMember(acc, k.v.s, e.v)
                    IN IF ~e.ok \/ r = <<>> THEN ParseFail
                       ELSE IF Head(r) = "," THEN ParseMembers(Tail(r), next)
                       ELSE IF Head(r) = "}" THEN ParseOk(JObj(next), Tail(r))
                       ELSE ParseFail

SyntaxErrorEnd ==
    [name |-> "SyntaxError",
     message |-> <<"U", "n", "e", "x", "p", "e", "c", "t", "e", "d", " ",
                   "e", "n", "d">>]

SyntaxErrorToken ==
    [name |-> "SyntaxError",
     message |-> <<"U", "n", "e", "x", "p", "e", "c", "t", "e", "d", " ",
                   "t", "o", "k", "e", "n">>]

\* the outcome of response.json() on a body text: the value, or the error
JsonParse(text) ==
    LET p == ParseValue(text)
    IN IF p.ok /\ SkipWs(p.rest) = <<>>
       THEN [threw |-> FALSE, value |-> p.v, error |-> NoError]
       ELSE [threw |-> TRUE, value |-> Undefined,
             error |-> IF SkipWs(text) = <<>> THEN SyntaxErrorEnd
                       ELSE SyntaxErrorToken]

(***************************************************************************)
(* The registry and the schema the tests bind (mocks.ts).                  *)
(***************************************************************************)
PetstoreBase ==
    <<"h", "t", "t", "p", "s", ":", "/", "/", "p", "e", "t", "s", "t", "o", "r", "e",
      "3", ".", "s", "w", "a", "g", "g", "e", "r", ".", "i", "o">>

PetRoute == <<"/", "p", "e", "t">>

PetIdRoute == <<"/", "p", "e", "t", "/", "{", "p", "e", "t", "I", "d", "}">>

\* a route no schema of the registry declares
UserRoute == <<"/", "u", "s", "e", "r">>

\* an operation: its request-body shape, when it declares one, and the
\* shape of responses[200].content['application/json']
Operation(hasBody, body, response) ==
    [hasBody |-> hasBody, body |-> body, response |-> response]

MockSchema ==
    (PetRoute :> ("post" :> Operation(TRUE, "Pet", "Pet")))
    @@ (PetIdRoute :> (("get" :> Operation(FALSE, "", "Pet"))
                       @@ ("put" :> Operation(TRUE, "Pet", "Pet"))
                       @@ ("delete" :> Operation(FALSE, "", "never"))))

ApiRegistry == (PetstoreBase :> MockSchema)

HttpMethods == {"GET", "POST", "PUT", "DELETE"}

(***************************************************************************)
(* The inputs of the model: the arguments callers pass and the answers     *)
(* the transport gives.                                                    *)
(***************************************************************************)
\* the invocations the instance has room for
CallIds == DOMAIN calls

\* the type parameter E is erased at run time: any string can arrive
Endpoints == {PetRoute, PetIdRoute, UserRoute}

\* mockPetData, cut to two fields: {id: 1, name: "F"}
PetData == JObj(<<Member(<<"i", "d">>, JNum(1)), Member(<<"n", "a", "m", "e">>, JStr(<<"F">>))>>)

Bodies == {Undefined, PetData, JNull, Cyclic}

Statuses == {200, 299, 300, 404}

PetText ==
    <<"{", QuoteCh, "i", "d", QuoteCh, ":", "1", ",",
      QuoteCh, "n", "a", "m", "e", QuoteCh, ":", QuoteCh, "F", QuoteCh, "}">>

BodyTexts ==
    { PetText,
      <<"{", "}">>,
      <<"[", "1", ",", "n", "u", "l", "l", "]">>,
      <<"n", "u", "l", "l">>,
      <<>>,
      <<"{", QuoteCh, "i", "d", QuoteCh, ":">> }

NetworkError ==
    [name |-> "TypeError",
     message |-> <<"N", "e", "t", "w", "o", "r", "k", " ", "e", "r", "r", "o", "r">>]

TimeoutError ==
    [name |-> "Error",
     message |-> <<"R", "e", "q", "u", "e", "s", "t", " ", "t", "i", "m", "e", "o", "u", "t">>]

TransportErrors == {NetworkError, TimeoutError}

(***************************************************************************)
(* One invocation of get/post/put/delete: where it stands, what it was     *)
(* given, what it sent, what it received and how it settled.               *)
(***************************************************************************)
NoRequest ==
    [method |-> "", url |-> <<>>, headers |-> {}, hasBody |-> FALSE, body |-> <<>>]

NoResponse == [status |-> 0, ok |-> FALSE, text |-> <<>>]

IdleCall ==
    [pc |-> "idle", op |-> "", endpoint |-> <<>>, method |-> "", body |-> Undefined,
     fetches |-> 0, request |-> NoRequest, response |-> NoResponse, reads |-> 0,
     value |-> Undefined, error |-> NoError]

NoQuery == [kind |-> "none", route |-> <<>>, verb |-> "", routes |-> {},
            ok |-> FALSE, shape |-> "", error |-> ""]

\* no second instance
NoTwin == [baseUrl |-> <<>>, calls |-> <<>>]

\* the registry file is not looked at
NoRegistry == [content |-> <<>>, writes |-> 0, last |-> "none"]

\* the command-line tool has not been started
NoCli == [pc |-> "off"]

Init ==
    /\ baseUrl \in DOMAIN ApiRegistry
    /\ schema = ApiRegistry[baseUrl]
    /\ calls = [c \in 1..MaxCalls |-> IdleCall]
    /\ resolved = NoQuery
    /\ twin = NoTwin
    /\ registry = NoRegistry
    /\ cli = NoCli

(***************************************************************************)
(* Via.#request, up to its first await.                                    *)
(***************************************************************************)
\* headers: an object, as the set of its <<name, value>> properties
InitialHeaders == {<<"Accept", "application/json">>}

\* { ...headers, [name]: value }
Spread(headers, name, value) ==
    {h \in headers : h[1] # name} \cup {<<name, value>>}

\* options, as built before `if (body !== undefined)`
InitialOptions(method) ==
    [method |-> method, headers |-> InitialHeaders, hasBody |-> FALSE, body |-> <<>>]

\* options after `if (body !== undefined) { ... }`; text is JSON.stringify(body)
MutBuildOptionsNoContentType(method, body, text) ==
    IF body # Undefined
    THEN [InitialOptions(method) EXCEPT !.hasBody = TRUE, !.body = text]
    ELSE InitialOptions(method)

MutBuildOptionsTruthy(method, body, text) ==
    IF body \notin {Undefined, JNull, JBool(FALSE), JNum(0), JStr(<<>>), JNaN}
    THEN [InitialOptions(method) EXCEPT
            !.headers = Spread(@, "Content-Type", "application/json"),
            !.hasBody = TRUE,
            !.body = text]
    ELSE InitialOptions(method)

BuildOptions(method, body, text) ==
    IF body # Undefined
    THEN [InitialOptions(method) EXCEPT
            !.headers = Spread(@, "Content-Type", "application/json"),
            !.hasBody = TRUE,
            !.body = text]
    ELSE InitialOptions(method)

\* const url = String(this.#baseUrl) + endpoint
MutBuildUrlJoined(base, endpoint) ==
    IF base # <<>> /\ base[Len(base)] = "/" /\ endpoint # <<>> /\ Head(endpoint) = "/"
    THEN base \o Tail(endpoint)
    ELSE base \o endpoint

BuildUrl(base, endpoint) == base \o endpoint

\* what fetch(url, options) is handed
FetchArgs(url, options) ==
    [method |-> options.method, url |-> url, headers |-> options.headers,
     hasBody |-> options.hasBody, body |-> options.body]

\* the call record once #request(endpoint, method, body) has run to its
\* await fetch(url, options), or has thrown before it
MutRequestFromSharedCount(base, op, endpoint, method, body) ==
    LET str == IF body # Undefined THEN JsonStringify(body)
               ELSE [threw |-> FALSE, text |-> <<>>, error |-> NoError]
        entered == [IdleCall EXCEPT !.op = op, !.endpoint = endpoint,
                                    !.method = method, !.body = body]
        inFlight == Cardinality({c \in DOMAIN calls : calls[c].pc = "fetching"})
    IN IF str.threw
       THEN [entered EXCEPT !.pc = "rejected", !.error = str.error]
       ELSE [entered EXCEPT
                !.pc = "fetching",
                !.fetches = @ + 1 + inFlight,
                !.request = FetchArgs(BuildUrl(base, endpoint),
                                      BuildOptions(method, body, str.text))]

RequestFrom(base, op, endpoint, method, body) ==
    LET str == IF body # Undefined THEN JsonStringify(body)
               ELSE [threw |-> FALSE, text |-> <<>>, error |-> NoError]
        entered == [IdleCall EXCEPT !.op = op, !.endpoint = endpoint,
                                    !.method = method, !.body = body]
    IN IF str.threw
       THEN [entered EXCEPT !.pc = "rejected", !.error = str.error]
       ELSE [entered EXCEPT
                !.pc = "fetching",
                !.fetches = @ + 1,
                !.request = FetchArgs(BuildUrl(base, endpoint),
                                      BuildOptions(method, body, str.text))]

\* #request on the instance: this.#baseUrl is the base
RequestStart(op, endpoint, method, body) ==
    RequestFrom(baseUrl, op, endpoint, method, body)

MutRequestSharedOptions(c, op, endpoint, method, body) ==
    LET own == RequestStart(op, endpoint, method, body)
        others == {d \in DOMAIN calls : calls[d].pc = "fetching"}
    IN /\ calls[c].pc = "idle"
       /\ calls' = [calls EXCEPT ![c] =
                       IF others # {} /\ own.pc = "fetching"
                       THEN [own EXCEPT !.request = calls[CHOOSE d \in others : TRUE].request]
                       ELSE own]
       /\ UNCHANGED <<baseUrl, schema, resolved, twin, registry, cli>>

MutRequestRebinds(c, op, endpoint, method, body) ==
    /\ calls[c].pc = "idle"
    /\ calls' = [calls EXCEPT ![c] = RequestStart(op, endpoint, method, body)]
    /\ baseUrl' = IF baseUrl[Len(baseUrl)] = "/" THEN baseUrl ELSE baseUrl \o <<"/">>
    /\ UNCHANGED <<schema, resolved, twin, registry, cli>>

Request(c, op, endpoint, method, body) ==
    /\ calls[c].pc = "idle"
    /\ calls' = [calls EXCEPT ![c] = RequestStart(op, endpoint, method, body)]
    /\ UNCHANGED <<baseUrl, schema, resolved, twin, registry, cli>>

Get(c, endpoint) == Request(c, "get", endpoint, "GET", Undefined)

Post(c, endpoint, body) == Request(c, "post", endpoint, "POST", body)

MutPutAsPost(c, endpoint, body) == Request(c, "put", endpoint, "POST", body)

Put(c, endpoint, body) == Request(c, "put", endpoint, "PUT", body)

Delete(c, endpoint) == Request(c, "delete", endpoint, "DELETE", Undefined)

(***************************************************************************)
(* Via.#request, after await fetch(url, options).                          *)
(***************************************************************************)
\* Response.ok, as the platform and the tests' createMockResponse define it
ResponseOk(status) == status >= 200 /\ status < 300

ErrorPrefix == <<"[", "A", "P", "I", " ", "E", "r", "r", "o", "r", "]", ":", " ">>

\* " from: %{endpoint}": the token is not a template placeholder
ErrorSuffix ==
    <<" ", "f", "r", "o", "m", ":", " ", "%", "{", "e", "n", "d", "p", "o", "i", "n", "t",
      "}">>

\* new Error(`[API Error]: ${response.status} from: %{endpoint}`)
MutApiErrorNoStatus(status, endpoint) ==
    [name |-> "Error", message |-> ErrorPrefix \o ErrorSuffix]

ApiError(status, endpoint) ==
    [name |-> "Error", message |-> ErrorPrefix \o NumToText(status) \o ErrorSuffix]

\* the call record once the awaited fetch has fulfilled with a response
MutAfterFetchNoCheck(call, status, text) ==
    [call EXCEPT !.response = [status |-> status, ok |-> ResponseOk(status), text |-> text],
                 !.pc = "reading", !.reads = @ + 1]

MutAfterFetchRetry(call, status, text) ==
    LET response == [status |-> status, ok |-> ResponseOk(status), text |-> text]
        received == [call EXCEPT !.response = response]
    IN IF ~response.ok /\ call.fetches < 2
       THEN [call EXCEPT !.fetches = @ + 1]
       ELSE IF ~response.ok
       THEN [received EXCEPT !.pc = "rejected",
                             !.error = ApiError(response.status, call.endpoint)]
       ELSE [received EXCEPT !.pc = "reading", !.reads = @ + 1]

MutAfterFetchReadsError(call, status, text) ==
    LET response == [status |-> status, ok |-> ResponseOk(status), text |-> text]
        received == [call EXCEPT !.response = response, !.reads = @ + 1]
    IN IF ~response.ok
       THEN [received EXCEPT !.pc = "rejected",
                             !.error = ApiError(response.status, call.endpoint)]
       ELSE [received EXCEPT !.pc = "reading"]

AfterFetch(call, status, text) ==
    LET response == [status |-> status, ok |-> ResponseOk(status), text |-> text]
        received == [call EXCEPT !.response = response]
    IN IF ~response.ok
       THEN [received EXCEPT !.pc = "rejected",
                             !.error = ApiError(response.status, call.endpoint)]
       ELSE [received EXCEPT !.pc = "reading", !.reads = @ + 1]

\* fetch fulfils: the status is classified, then response.json() is started
MutFetchFulfilledResends(c, status, text) ==
    /\ calls[c].pc = "fetching"
    /\ calls' = [calls EXCEPT ![c] =
                    IF ~ResponseOk(status) /\ @.fetches < 2
                    THEN [@ EXCEPT !.fetches = @ + 1]
                    ELSE AfterFetch(@, status, text)]
    /\ UNCHANGED <<baseUrl, schema, resolved, twin, registry, cli>>

FetchFulfilled(c, status, text) ==
    /\ calls[c].pc = "fetching"
    /\ calls' = [calls EXCEPT ![c] = AfterFetch(calls[c], status, text)]
    /\ UNCHANGED <<baseUrl, schema, resolved, twin, registry, cli>>

\* fetch rejects: the await throws the transport's error out of #request
MutFetchRejectedGeneric(c, err) ==
    /\ calls[c].pc = "fetching"
    /\ calls' = [calls EXCEPT ![c] = [@ EXCEPT !.pc = "rejected",
                                               !.error = ApiError(0, @.endpoint)]]
    /\ UNCHANGED <<baseUrl, schema, resolved, twin, registry, cli>>

FetchRejected(c, err) ==
    /\ calls[c].pc = "fetching"
    /\ calls' = [calls EXCEPT ![c] = [@ EXCEPT !.pc = "rejected", !.error = err]]
    /\ UNCHANGED <<baseUrl, schema, resolved, twin, registry, cli>>

\* the call record once the promise of response.json() has settled
MutAfterJsonNullish(call) ==
    LET parsed == JsonParse(call.response.text)
    IN IF parsed.threw
       THEN [call EXCEPT !.pc = "rejected", !.error = parsed.error]
       ELSE [call EXCEPT !.pc = "resolved",
                         !.value = IF parsed.value = JNull THEN JObj(<<>>)
                                   ELSE parsed.value]

MutAfterJsonDefault(call) ==
    LET parsed == JsonParse(call.response.text)
    IN IF parsed.threw
       THEN [call EXCEPT !.pc = "resolved", !.value = JNull]
       ELSE [call EXCEPT !.pc = "resolved", !.value = parsed.value]

\* the call record once response.json() has settled with the outcome parsed
MutAfterJsonWithSwallows(call, parsed) ==
    IF parsed.threw
    THEN call
    ELSE [call EXCEPT !.pc = "resolved", !.value = parsed.value]

AfterJsonWith(call, parsed) ==
    IF parsed.threw
    THEN [call EXCEPT !.pc = "rejected", !.error = parsed.error]
    ELSE [call EXCEPT !.pc = "resolved", !.value = parsed.value]

AfterJson(call) == AfterJsonWith(call, JsonParse(call.response.text))

JsonSettled(c) ==
    /\ calls[c].pc = "reading"
    /\ calls' = [calls EXCEPT ![c] = AfterJson(calls[c])]
    /\ UNCHANGED <<baseUrl, schema, resolved, twin, registry, cli>>

\* the caller has taken the outcome of a settled call; it may call again
Settled(call) == call.pc \in {"resolved", "rejected"}

Taken(c) ==
    /\ Settled(calls[c])
    /\ calls' = [calls EXCEPT ![c] = IdleCall]
    /\ UNCHANGED <<baseUrl, schema, resolved, twin, registry, cli>>

Next ==
    \/ \E c \in CallIds, e \in Endpoints : Get(c, e)
    \/ \E c \in CallIds, e \in Endpoints, b \in Bodies : Post(c, e, b)
    \/ \E c \in CallIds, e \in Endpoints, b \in Bodies : Put(c, e, b)
    \/ \E c \in CallIds, e \in Endpoints : Delete(c, e)
    \/ \E c \in CallIds, st \in Statuses, t \in BodyTexts : FetchFulfilled(c, st, t)
    \/ \E c \in CallIds, err \in TransportErrors : FetchRejected(c, err)
    \/ \E c \in CallIds : JsonSettled(c)
    \/ \E c \in CallIds : Taken(c)

Spec == Init /\ [][Next]_vars

(***************************************************************************)
(* The requests the instance sends, over a wide set of base URLs and body  *)
(* arguments; the transport fails each request, so that only what was sent *)
(* varies.                                                                 *)
(***************************************************************************)
ApiV3Base == PetstoreBase \o <<"/", "a", "p", "i", "/", "v", "3">>

SlashBase == PetstoreBase \o <<"/">>

RequestBases == {PetstoreBase, ApiV3Base, SlashBase}

QuotedName == JStr(<<"a", QuoteCh, " ", BackslashCh, "b">>)

IdKey == <<"i", "d">>

NameKey == <<"n", "a", "m", "e">>

RequestBodies ==
    { Undefined, Cyclic, JNaN, JNull, JBool(TRUE), JBool(FALSE),
      JNum(0), JNum(1), JNum(0 - 7), JNum(120),
      JStr(<<>>), JStr(<<"a", " ", "b">>), QuotedName,
      JArr(<<>>), JArr(<<JNum(1), JNull>>), JArr(<<JArr(<<>>), JObj(<<>>)>>),
      JArr(<<Undefined, JNum(2)>>),
      JObj(<<>>), PetData,
      JObj(<<Member(IdKey, JNum(10)), Member(NameKey, QuotedName)>>),
      JObj(<<Member(NameKey, JObj(<<Member(IdKey, JArr(<<JBool(TRUE)>>))>>))>>),
      JObj(<<Member(IdKey, JNaN), Member(NameKey, JStr(<<"F">>))>>),
      JObj(<<Member(IdKey, JNum(1)), Member(NameKey, Undefined)>>),
      JObj(<<Member(IdKey, Cyclic)>>) }

InitRequest ==
    /\ baseUrl \in RequestBases
    /\ schema = MockSchema
    /\ calls = [c \in 1..MaxCalls |-> IdleCall]
    /\ resolved = NoQuery
    /\ twin = NoTwin
    /\ registry = NoRegistry
    /\ cli = NoCli

NextRequest ==
    \/ \E c \in CallIds, e \in Endpoints : Get(c, e)
    \/ \E c \in CallIds, e \in Endpoints, b \in RequestBodies : Post(c, e, b)
    \/ \E c \in CallIds, e \in Endpoints, b \in RequestBodies : Put(c, e, b)
    \/ \E c \in CallIds, e \in Endpoints : Delete(c, e)
    \/ \E c \in CallIds : FetchRejected(c, NetworkError)
    \/ \E c \in CallIds : Taken(c)

SpecRequest == InitRequest /\ [][NextRequest]_vars

(***************************************************************************)
(* Several calls in flight on one instance: requests, response arrivals    *)
(* and body reads of different calls interleave in every order.            *)
(***************************************************************************)
ConcurrentEndpoints == {PetRoute, PetIdRoute}

ConcurrentBodies == {PetData, Cyclic}

ConcurrentStatuses == {200, 404}

ConcurrentTexts == {PetText, <<>>}

InitConcurrent ==
    /\ baseUrl \in DOMAIN ApiRegistry
    /\ schema = ApiRegistry[baseUrl]
    /\ calls = [c \in 1..MaxConcurrent |-> IdleCall]
    /\ resolved = NoQuery
    /\ twin = NoTwin
    /\ registry = NoRegistry
    /\ cli = NoCli

NextConcurrent ==
    \/ \E c \in CallIds, e \in ConcurrentEndpoints : Get(c, e)
    \/ \E c \in CallIds, e \in ConcurrentEndpoints, b \in ConcurrentBodies : Post(c, e, b)
    \/ \E c \in CallIds, e \in ConcurrentEndpoints, b \in ConcurrentBodies : Put(c, e, b)
    \/ \E c \in CallIds, e \in ConcurrentEndpoints : Delete(c, e)
    \/ \E c \in CallIds, st \in ConcurrentStatuses, t \in ConcurrentTexts :
          FetchFulfilled(c, st, t)
    \/ \E c \in CallIds : FetchRejected(c, NetworkError)
    \/ \E c \in CallIds : JsonSettled(c)
    \/ \E c \in CallIds : Taken(c)

SpecConcurrent == InitConcurrent /\ [][NextConcurrent]_vars

(***************************************************************************)
(* The dispatcher under a transport that eventually answers or fails every *)
(* request, and a body read that eventually completes or fails.            *)
(***************************************************************************)
\* the transport settles the fetch of call c, one way or the other
TransportSettles(c) ==
    \/ \E st \in Statuses, t \in ConcurrentTexts : FetchFulfilled(c, st, t)
    \/ FetchRejected(c, NetworkError)

NextSettling ==
    \/ \E c \in CallIds, e \in Endpoints : Get(c, e)
    \/ \E c \in CallIds, e \in Endpoints, b \in ConcurrentBodies : Post(c, e, b)
    \/ \E c \in CallIds, e \in Endpoints, b \in ConcurrentBodies : Put(c, e, b)
    \/ \E c \in CallIds, e \in Endpoints : Delete(c, e)
    \/ \E c \in CallIds : TransportSettles(c)
    \/ \E c \in CallIds : JsonSettled(c)
    \/ \E c \in CallIds : Taken(c)

\* what response.json() gives for each body text the transport delivers here
Decoded == [t \in ConcurrentTexts |-> JsonParse(t)]

\* the body read of call c completes or fails: the step JsonSettled(c), for
\* the body texts of Decoded
ReadSettles(c) ==
    /\ calls[c].pc = "reading"
    /\ calls[c].response.text \in DOMAIN Decoded
    /\ calls' = [calls EXCEPT ![c] = AfterJsonWith(@, Decoded[@.response.text])]
    /\ UNCHANGED <<baseUrl, schema, resolved, twin, registry, cli>>

SpecSettling ==
    /\ Init
    /\ [][NextSettling]_vars
    /\ \A c \in 1..MaxCalls : WF_vars(TransportSettles(c)) /\ WF_vars(ReadSettles(c))

(***************************************************************************)
(* Two instances constructed from the same base URL.  The first is driven  *)
(* as above; the second is then given the same call, the same response or  *)
(* the same transport failure, and runs the same code on its own state.    *)
(***************************************************************************)
InitTwin ==
    /\ baseUrl \in DOMAIN ApiRegistry
    /\ schema = ApiRegistry[baseUrl]
    /\ calls = [c \in 1..MaxCalls |-> IdleCall]
    /\ resolved = NoQuery
    /\ twin = [baseUrl |-> baseUrl, calls |-> calls]
    /\ registry = NoRegistry
    /\ cli = NoCli

\* both instances stand at the same point of every call
InStep == \A c \in CallIds : twin.calls[c].pc = calls[c].pc

\* the second instance takes the step the first has just taken on call c
TwinReplay(c) ==
    LET mine == twin.calls[c]
        lead == calls[c]
    IN /\ mine.pc # lead.pc
       /\ twin' = [twin EXCEPT !.calls[c] =
                     CASE mine.pc = "idle" ->
                            RequestFrom(twin.baseUrl, lead.op, lead.endpoint,
                                        lead.method, lead.body)
                       [] mine.pc = "fetching" /\ lead.response # NoResponse ->
                            AfterFetch(mine, lead.response.status, lead.response.text)
                       [] mine.pc = "fetching" /\ lead.response = NoResponse ->
                            [mine EXCEPT !.pc = "rejected", !.error = lead.error]
                       [] mine.pc = "reading" -> AfterJson(mine)
                       [] Settled(mine) -> IdleCall]
       /\ UNCHANGED <<baseUrl, schema, calls, resolved, registry, cli>>

NextTwin ==
    \/ InStep /\ NextConcurrent
    \/ \E c \in CallIds : TwinReplay(c)

SpecTwin == InitTwin /\ [][NextTwin]_vars

(***************************************************************************)
(* updateRegistry (src/cli/updateRegistry.ts): the text editing of the     *)
(* registry file.  The file content is a text; a line break is one         *)
(* character of it.                                                        *)
(***************************************************************************)
Newline == "\n"

IsSpace(ch) == ch \in {" ", Newline, "\t", "\r"}

\* content.split('\n')
RECURSIVE Split(_)
Split(text) ==
    IF \A i \in 1..Len(text) : text[i] # Newline THEN <<text>>
    ELSE LET i == CHOOSE k \in 1..Len(text) :
                     /\ text[k] = Newline
                     /\ \A m \in 1..(k - 1) : text[m] # Newline
         IN <<SubSeq(text, 1, i - 1)>> \o Split(Drop(text, i))

\* lines.join('\n')
RECURSIVE Join(_)
Join(lines) ==
    IF lines = <<>> THEN <<>>
    ELSE IF Len(lines) = 1 THEN lines[1]
    ELSE lines[1] \o <<Newline>> \o Join(Tail(lines))

\* String.prototype.trim
RECURSIVE Trim(_)
Trim(text) ==
    IF text = <<>> THEN <<>>
    ELSE IF IsSpace(Head(text)) THEN Trim(Tail(text))
    ELSE IF IsSpace(text[Len(text)]) THEN Trim(SubSeq(text, 1, Len(text) - 1))
    ELSE text

\* `"${entry.baseUrl}"`: the text the duplicate check looks for
DuplicateMark(entry) == <<QuoteCh>> \o entry.baseUrl \o <<QuoteCh>>

\* `import type { paths as ${entry.schemaName} } from './schema/${entry.schemaName}.js';\n`
importLine(entry) ==
    <<"i", "m", "p", "o", "r", "t", " ", "t", "y", "p", "e", " ", "{", " ",
      "p", "a", "t", "h", "s", " ", "a", "s", " ">>
    \o entry.schemaName
    \o <<" ", "}", " ", "f", "r", "o", "m", " ", "'", ".", "/", "s", "c", "h",
  "e", "m", "a", "/">>
    \o entry.schemaName
    \o <<".", "j", "s", "'", ";", Newline>>

\* the index the while loop stops at: the first line that neither starts
\* with // nor is blank
RECURSIVE insertIndex(_, _)
insertIndex(lines, i) ==
    IF i < Len(lines)
       /\ (StartsWith(lines[i + 1], <<"/", "/">>) \/ Trim(lines[i + 1]) = <<>>)
    THEN insertIndex(lines, i + 1)
    ELSE i

\* lines.splice(insertIndex, 0, importLine.trim(), '')
Splice(lines, i, entry) ==
    SubSeq(lines, 1, i) \o <<Trim(importLine(entry)), <<>>>> \o SubSeq(lines, i + 1, Len(lines))

\* the content once the import line is in it
WithImport(content, entry) ==
    IF Contains(content, importLine(entry)) THEN content
    ELSE LET lines == Split(content)
         IN Join(Splice(lines, insertIndex(lines, 0), entry))

InterfaceHead ==
    <<"e", "x", "p", "o", "r", "t", " ", "i", "n", "t", "e", "r", "f", "a",
      "c", "e", " ", "A", "p", "i", "R", "e", "g", "i", "s", "t", "r", "y">>

RECURSIVE SkipSpaces(_, _)
SkipSpaces(text, j) ==
    IF j <= Len(text) /\ IsSpace(text[j]) THEN SkipSpaces(text, j + 1) ELSE j

\* /export interface ApiRegistry\s*{([\s\S]*?)}/ matches from position i
MatchAt(text, i) ==
    /\ i + Len(InterfaceHead) - 1 <= Len(text)
    /\ SubSeq(text, i, i + Len(InterfaceHead) - 1) = InterfaceHead
    /\ LET j == SkipSpaces(text, i + Len(InterfaceHead))
       IN /\ j <= Len(text)
          /\ text[j] = "{"
          /\ \E k \in (j + 1)..Len(text) : text[k] = "}"

\* the first match of the pattern: where it starts, where its { is and
\* where the first } after it is (the group is lazy)
FirstMatch(text) ==
    LET starts == {i \in 1..Len(text) : MatchAt(text, i)}
    IN IF starts = {} THEN [found |-> FALSE, start |-> 0, open |-> 0, close |-> 0]
       ELSE LET i == CHOOSE a \in starts : \A b \in starts : a <= b
                j == SkipSpaces(text, i + Len(InterfaceHead))
                k == CHOOSE a \in (j + 1)..Len(text) :
                        /\ text[a] = "}"
                        /\ \A b \in (j + 1)..(a - 1) : text[b] # "}"
            IN [found |-> TRUE, start |-> i, open |-> j, close |-> k]

\* `export interface ApiRegistry {\n  '${entry.baseUrl}': ${entry.schemaName};${body}\n}`
MutReplacementDropsBody(entry, body) ==
    InterfaceHead \o <<" ", "{", Newline, " ", " ", "'">> \o entry.baseUrl
    \o <<"'", ":", " ">> \o entry.schemaName \o <<";">> \o <<Newline, "}">>

Replacement(entry, body) ==
    InterfaceHead \o <<" ", "{", Newline, " ", " ", "'">> \o entry.baseUrl
    \o <<"'", ":", " ">> \o entry.schemaName \o <<";">> \o body \o <<Newline, "}">>

\* content.replace(pattern, replacer): the first match only, if there is one
MutWithEntryAppendsBlock(content, entry) ==
    LET m == FirstMatch(content)
    IN IF ~m.found THEN content \o Replacement(entry, <<>>) \o <<Newline>>
       ELSE SubSeq(content, 1, m.start - 1)
            \o Replacement(entry, SubSeq(content, m.open + 1, m.close - 1))
            \o Drop(content, m.close)

WithEntry(content, entry) ==
    LET m == FirstMatch(content)
    IN IF ~m.found THEN content
       ELSE SubSeq(content, 1, m.start - 1)
            \o Replacement(entry, SubSeq(content, m.open + 1, m.close - 1))
            \o Drop(content, m.close)

\* the registry file after updateRegistry(entry)
MutUpdateRegistryWritesOnSkip(reg, entry) ==
    IF Contains(reg.content, DuplicateMark(entry))
    THEN [content |-> WithImport(reg.content, entry),
          writes |-> reg.writes + 1,
          last |-> "skipped"]
    ELSE [content |-> WithEntry(WithImport(reg.content, entry), entry),
          writes |-> reg.writes + 1,
          last |-> "written"]

updateRegistry(reg, entry) ==
    IF Contains(reg.content, DuplicateMark(entry))
    THEN [reg EXCEPT !.last = "skipped"]
    ELSE [content |-> WithEntry(WithImport(reg.content, entry), entry),
          writes |-> reg.writes + 1,
          last |-> "written"]

\* the base URLs and schema names the prompts are answered with
RegistryBases == {<<"h", "t", "t", "p", ":", "/", "/", "a">>,
                  <<"h", "t", "t", "p", ":", "/", "/", "b">>}

SchemaNames == {<<"s">>, <<"t">>}

\* registry files updateRegistry can find: the layout of the documentation
\* with one entry, the same with a double-quoted key, an empty interface,
\* and a file without the interface
DocRegistry ==
    <<"/", "/", " ", "s", "r", "c", "/", "a", "p", "i", "R", "e", "g", "i",
      "s", "t", "r", "y", ".", "t", "s", Newline, "i", "m", "p", "o", "r",
      "t", " ", "t", "y", "p", "e", " ", "{", " ", "p", "a", "t", "h", "s",
      " ", "a", "s", " ", "s", " ", "}", " ", "f", "r", "o", "m", " ", "'",
      ".", "/", "s", "c", "h", "e", "m", "a", "/", "s", ".", "j", "s", "'",
      ";", Newline, Newline, "e", "x", "p", "o", "r", "t", " ", "i", "n",
      "t", "e", "r", "f", "a", "c", "e", " ", "A", "p", "i", "R", "e", "g",
      "i", "s", "t", "r", "y", " ", "{", Newline, " ", " ", "'", "h", "t",
      "t", "p", ":", "/", "/", "a", "'", ":", " ", "s", ";", Newline, "}",
      Newline>>

DoubleQuotedRegistry ==
    <<"/", "/", " ", "s", "r", "c", "/", "a", "p", "i", "R", "e", "g", "i",
      "s", "t", "r", "y", ".", "t", "s", Newline, "i", "m", "p", "o", "r",
      "t", " ", "t", "y", "p", "e", " ", "{", " ", "p", "a", "t", "h", "s",
      " ", "a", "s", " ", "s", " ", "}", " ", "f", "r", "o", "m", " ", "'",
      ".", "/", "s", "c", "h", "e", "m", "a", "/", "s", ".", "j", "s", "'",
      ";", Newline, Newline, "e", "x", "p", "o", "r", "t", " ", "i", "n",
      "t", "e", "r", "f", "a", "c", "e", " ", "A", "p", "i", "R", "e", "g",
      "i", "s", "t", "r", "y", " ", "{", Newline, " ", " ", QuoteCh, "h",
      "t", "t", "p", ":", "/", "/", "a", QuoteCh, ":", " ", "s", ";",
      Newline, "}", Newline>>

EmptyRegistry ==
    <<"/", "/", " ", "s", "r", "c", "/", "a", "p", "i", "R", "e", "g", "i",
      "s", "t", "r", "y", ".", "t", "s", Newline, Newline, "e", "x", "p",
      "o", "r", "t", " ", "i", "n", "t", "e", "r", "f", "a", "c", "e", " ",
      "A", "p", "i", "R", "e", "g", "i", "s", "t", "r", "y", " ", "{", "}",
      Newline>>

NoInterfaceRegistry ==
    <<"/", "/", " ", "s", "r", "c", "/", "a", "p", "i", "R", "e", "g", "i",
      "s", "t", "r", "y", ".", "t", "s", Newline>>

RegistryFiles == {DocRegistry, DoubleQuotedRegistry, EmptyRegistry, NoInterfaceRegistry}

InitRegistry ==
    /\ baseUrl \in DOMAIN ApiRegistry
    /\ schema = ApiRegistry[baseUrl]
    /\ calls = [c \in 1..MaxCalls |-> IdleCall]
    /\ resolved = NoQuery
    /\ twin = NoTwin
    /\ registry \in {[content |-> f, writes |-> 0, last |-> "none"] : f \in RegistryFiles}
    /\ cli = NoCli

UpdateRegistry(base, name) ==
    /\ registry.writes < MaxWrites
    /\ registry' = updateRegistry(registry, [baseUrl |-> base, schemaName |-> name])
    /\ UNCHANGED <<baseUrl, schema, calls, resolved, twin, cli>>

NextRegistry == \E base \in RegistryBases, name \in SchemaNames : UpdateRegistry(base, name)

SpecRegistry == InitRegistry /\ [][NextRegistry]_vars

(***************************************************************************)
(* The command-line tool: main (src/cli/index.ts) and generateFromOpenApi  *)
(* (src/cli/generate.ts).  One run: the prompts, then the synchronous      *)
(* stretch up to the awaited generator command, then its outcome.          *)
(***************************************************************************)
\* validate: (resp) => resp.startsWith('http')
validate(resp) == StartsWith(resp, <<"h", "t", "t", "p">>)

\* default: 'openapi-types'
DefaultSchemaName ==
    <<"o", "p", "e", "n", "a", "p", "i", "-", "t", "y", "p", "e", "s">>

\* what the user types at each prompt
UrlAnswers == {<<"h", "t", "t", "p", ":", "/", "/", "d">>, <<"f", "t", "p", ":", "/", "/", "d">>}

BaseUrlAnswers == RegistryBases \cup {<<"a">>}

SchemaNameAnswers == SchemaNames \cup {<<>>}

\* where fs.existsSync finds the generator: in Via's own node_modules, hoisted
\* to the parent node_modules, or nowhere
BinLocations == {"own", "hoisted", "none"}

\* the Error findOpenApiTypescriptBin throws (its message begins so)
BinNotFound ==
    [name |-> "Error",
     message |->
        <<"C", "o", "u", "l", "d", " ", "n", "o", "t", " ", "f", "i", "n",
          "d", " ", "o", "p", "e", "n", "a", "p", "i", "-", "t", "y", "p",
          "e", "s", "c", "r", "i", "p", "t", " ", "b", "i", "n", "a", "r",
          "y", ".">>]

\* the Error execAsync rejects with when the command exits with an error
CommandFailed ==
    [name |-> "Error",
     message |->
        <<"C", "o", "m", "m", "a", "n", "d", " ", "f", "a", "i", "l", "e",
          "d">>]

\* the Error fs.readFileSync throws when the registry file does not exist
FileNotFound ==
    [name |-> "Error", message |-> <<"E", "N", "O", "E", "N", "T">>]

\* the registry file ensureRegistryExists creates when there is none
RegistryTemplates == {EmptyRegistry, NoInterfaceRegistry}

\* ensureRegistryExists(): creates the registry file unless it exists
ensureRegistryExists(reg, exists, template) ==
    IF exists THEN reg ELSE [content |-> template, writes |-> 0, last |-> "none"]

\* findOpenApiTypescriptBin(): the first existing path, or the throw
findOpenApiTypescriptBin(bin) ==
    IF bin = "none" THEN [threw |-> TRUE, error |-> BinNotFound]
    ELSE [threw |-> FALSE, error |-> NoError]

\* catch (error) { ...; throw error } in generateFromOpenApi, then
\* main().catch: process.exit(1)
Rethrown(run, error) ==
    [run EXCEPT !.pc = "failed", !.error = error, !.exit = 1,
                !.trace = @ \o <<"throw">>]

InitCli ==
    /\ baseUrl \in DOMAIN ApiRegistry
    /\ schema = ApiRegistry[baseUrl]
    /\ calls = [c \in 1..MaxCalls |-> IdleCall]
    /\ resolved = NoQuery
    /\ twin = NoTwin
    /\ \E exists \in BOOLEAN, dir \in BOOLEAN :
          /\ cli = [pc |-> "askMode", mode |-> "", url |-> <<>>, baseUrl |-> <<>>,
                    schemaName |-> <<>>, registryExists |-> exists,
                    schemaDir |-> dir, schemaFile |-> FALSE,
                    trace |-> <<>>, error |-> NoError, exit |-> 0]
          /\ IF exists
             THEN registry \in {[content |-> f, writes |-> 0, last |-> "none"] :
                                  f \in RegistryFiles}
             ELSE registry = NoRegistry

\* main: the mode prompt; manual mode only ensures the registry file
ChooseMode(mode, template) ==
    /\ cli.pc = "askMode"
    /\ IF mode = "openapi"
       THEN /\ cli' = [cli EXCEPT !.pc = "askUrl", !.mode = mode,
                                  !.trace = @ \o <<"mode">>]
            /\ UNCHANGED registry
       ELSE /\ cli' = [cli EXCEPT !.pc = "done", !.mode = mode,
                                  !.registryExists = TRUE,
                                  !.trace = @ \o <<"mode", "ensureRegistryExists">>]
            /\ registry' = ensureRegistryExists(registry, cli.registryExists, template)
    /\ UNCHANGED <<baseUrl, schema, calls, resolved, twin>>

\* the first prompt; an answer validate refuses is asked again
MutAnswerUrlEnsuresRegistry(answer) ==
    /\ cli.pc = "askUrl"
    /\ validate(answer)
    /\ cli' = [cli EXCEPT !.pc = "askBaseUrl", !.url = answer,
                          !.registryExists = TRUE,
                          !.trace = @ \o <<"url", "ensureRegistryExists">>]
    /\ registry' = ensureRegistryExists(registry, cli.registryExists, EmptyRegistry)
    /\ UNCHANGED <<baseUrl, schema, calls, resolved, twin>>

AnswerUrl(answer) ==
    /\ cli.pc = "askUrl"
    /\ cli' = IF validate(answer)
              THEN [cli EXCEPT !.pc = "askBaseUrl", !.url = answer,
                               !.trace = @ \o <<"url">>]
              ELSE cli
    /\ UNCHANGED <<baseUrl, schema, calls, resolved, twin, registry>>

\* the second prompt
AnswerBaseUrl(answer) ==
    /\ cli.pc = "askBaseUrl"
    /\ cli' = IF validate(answer)
              THEN [cli EXCEPT !.pc = "askSchemaName", !.baseUrl = answer,
                               !.trace = @ \o <<"baseUrl">>]
              ELSE cli
    /\ UNCHANGED <<baseUrl, schema, calls, resolved, twin, registry>>

\* the third prompt, and generateFromOpenApi from there to await execAsync:
\* ensureRegistryExists, the schema directory, findOpenApiTypescriptBin
AnswerSchemaName(answer, bin, template) ==
    LET name == IF answer = <<>> THEN DefaultSchemaName ELSE answer
        found == findOpenApiTypescriptBin(bin)
        prepared == [cli EXCEPT
                       !.schemaName = name,
                       !.registryExists = TRUE,
                       !.schemaDir = TRUE,
                       !.trace = @ \o <<"schemaName", "ensureRegistryExists">>
                                   \o (IF cli.schemaDir THEN <<>> ELSE <<"mkdir">>)
                                   \o <<"findBin">>]
    IN /\ cli.pc = "askSchemaName"
       /\ registry' = ensureRegistryExists(registry, cli.registryExists, template)
       /\ cli' = IF found.threw THEN Rethrown(prepared, found.error)
                 ELSE [prepared EXCEPT !.pc = "exec", !.trace = @ \o <<"exec">>]
       /\ UNCHANGED <<baseUrl, schema, calls, resolved, twin>>

\* the generator command has completed: updateRegistry, then done
ExecResolves ==
    LET generated == [cli EXCEPT !.schemaFile = TRUE,
                                 !.trace = @ \o <<"generated", "updateRegistry">>]
    IN /\ cli.pc = "exec"
       /\ IF cli.registryExists
          THEN /\ registry' = updateRegistry(registry, [baseUrl |-> cli.baseUrl,
                                                        schemaName |-> cli.schemaName])
               /\ cli' = [generated EXCEPT !.pc = "done"]
          ELSE /\ registry' = registry
               /\ cli' = Rethrown(generated, FileNotFound)
       /\ UNCHANGED <<baseUrl, schema, calls, resolved, twin>>

\* the generator command has failed: the catch logs and rethrows
MutExecRejectsStillRegisters ==
    /\ cli.pc = "exec"
    /\ registry' = updateRegistry(registry, [baseUrl |-> cli.baseUrl,
                                             schemaName |-> cli.schemaName])
    /\ cli' = Rethrown(cli, CommandFailed)
    /\ UNCHANGED <<baseUrl, schema, calls, resolved, twin>>

ExecRejects ==
    /\ cli.pc = "exec"
    /\ cli' = Rethrown(cli, CommandFailed)
    /\ UNCHANGED <<baseUrl, schema, calls, resolved, twin, registry>>

NextCli ==
    \/ \E mode \in {"openapi", "manual"}, t \in RegistryTemplates : ChooseMode(mode, t)
    \/ \E a \in UrlAnswers : AnswerUrl(a)
    \/ \E a \in BaseUrlAnswers : AnswerBaseUrl(a)
    \/ \E a \in SchemaNameAnswers, bin \in BinLocations, t \in RegistryTemplates :
          AnswerSchemaName(a, bin, t)
    \/ ExecResolves
    \/ ExecRejects

SpecCli == InitCli /\ [][NextCli]_vars

(***************************************************************************)
(* The contract resolver (src/types.ts): FilterRoutes, ApiBody, ApiReturn. *)
(* A schema maps a route to a map from lower-case verb key to Operation.   *)
(***************************************************************************)
\* Lowercase<M>: the schema keys verbs in lower case
VerbKey(verb) ==
    CASE verb = "GET" -> "get"
      [] verb = "POST" -> "post"
      [] verb = "PUT" -> "put"
      [] verb = "DELETE" -> "delete"
      [] OTHER -> ""

Declares(sch, route, verb) ==
    /\ route \in DOMAIN sch
    /\ VerbKey(verb) \in DOMAIN sch[route]

\* FilterRoutes<Schema, Method>: route by route, keep it when it has the key
RECURSIVE FilterRoutesOver(_, _, _)
FilterRoutesOver(sch, routes, verb) ==
    IF routes = {} THEN {}
    ELSE LET r == CHOOSE x \in routes : TRUE
         IN (IF VerbKey(verb) \in DOMAIN sch[r] THEN {r} ELSE {})
            \cup FilterRoutesOver(sch, routes \ {r}, verb)

MutRoutesForAll(sch, verb) == DOMAIN sch

routesFor(sch, verb) == FilterRoutesOver(sch, DOMAIN sch, verb)

ContractFailure(error) == [ok |-> FALSE, shape |-> "", error |-> error]

ContractShape(shape) == [ok |-> TRUE, shape |-> shape, error |-> ""]

\* navigate endpoint -> method -> operation
MutLookupUnknownOnly(sch, route, verb) ==
    IF ~Declares(sch, route, verb) THEN ContractFailure("UnknownRoute")
    ELSE [ok |-> TRUE, op |-> sch[route][VerbKey(verb)], error |-> ""]

Lookup(sch, route, verb) ==
    IF route \notin DOMAIN sch THEN ContractFailure("UnknownRoute")
    ELSE IF VerbKey(verb) \notin DOMAIN sch[route] THEN ContractFailure("UnsupportedVerb")
    ELSE [ok |-> TRUE, op |-> sch[route][VerbKey(verb)], error |-> ""]

\* ApiBody: requestBody.content['application/json'], or absent
MutBodyShapeAlwaysAbsent(sch, route, verb) ==
    LET found == Lookup(sch, route, verb)
    IN IF ~found.ok THEN found ELSE ContractShape("absent")

bodyShapeFor(sch, route, verb) ==
    LET found == Lookup(sch, route, verb)
    IN IF ~found.ok THEN found
       ELSE IF found.op.hasBody THEN ContractShape(found.op.body)
       ELSE ContractShape("absent")

\* ApiReturn: responses[200].content['application/json']
responseShapeFor(sch, route, verb) ==
    LET found == Lookup(sch, route, verb)
    IN IF ~found.ok THEN found ELSE ContractShape(found.op.response)

(***************************************************************************)
(* Schemas to resolve against: every assignment of a verb set to each of   *)
(* a set of routes, under two assignments of shapes to operations.         *)
(***************************************************************************)
VerbKeySets ==
    { {}, {"get"}, {"post"}, {"get", "put", "delete"}, {"get", "post", "put", "delete"} }

ShapeVariants == {"pet", "order"}

OperationOf(variant, key) ==
    IF variant = "pet"
    THEN Operation(key \in {"post", "put"}, IF key \in {"post", "put"} THEN "Pet" ELSE "",
                   IF key = "delete" THEN "never" ELSE "Pet")
    ELSE Operation(key = "post", IF key = "post" THEN "NewOrder" ELSE "", "Order")

SchemaOf(routes, keysOf, variant) ==
    [r \in routes |-> [k \in keysOf[r] |-> OperationOf(variant, k)]]

SchemaFamily ==
    UNION { { SchemaOf(R, ks, v) : ks \in [R -> VerbKeySets], v \in ShapeVariants } :
            R \in SUBSET {PetRoute, PetIdRoute} }

InitResolver ==
    /\ baseUrl = PetstoreBase
    /\ schema \in SchemaFamily \cup {MockSchema}
    /\ calls = [c \in 1..MaxCalls |-> IdleCall]
    /\ resolved = NoQuery
    /\ twin = NoTwin
    /\ registry = NoRegistry
    /\ cli = NoCli

ResolveRoutes(verb) ==
    /\ resolved' = [NoQuery EXCEPT !.kind = "routesFor", !.verb = verb,
                                   !.routes = routesFor(schema, verb)]
    /\ UNCHANGED <<baseUrl, schema, calls, twin, registry, cli>>

ResolveShape(kind, route, verb, result) ==
    /\ resolved' = [NoQuery EXCEPT !.kind = kind, !.route = route, !.verb = verb,
                                   !.ok = result.ok, !.shape = result.shape,
                                   !.error = result.error]
    /\ UNCHANGED <<baseUrl, schema, calls, twin, registry, cli>>

ResolveBody(route, verb) ==
    ResolveShape("bodyShapeFor", route, verb, bodyShapeFor(schema, route, verb))

ResolveResponse(route, verb) ==
    ResolveShape("responseShapeFor", route, verb, responseShapeFor(schema, route, verb))

NextResolver ==
    \/ \E v \in HttpMethods : ResolveRoutes(v)
    \/ \E r \in Endpoints, v \in HttpMethods : ResolveBody(r, v)
    \/ \E r \in Endpoints, v \in HttpMethods : ResolveResponse(r, v)

SpecResolver == InitResolver /\ [][NextResolver]_vars

(***************************************************************************)
(* Vocabulary of the properties.                                           *)
(***************************************************************************)
Invoked(call) == call.pc # "idle"

Received(call) == call.response # NoResponse

SuccessStatus(status) == 200 <= status /\ status < 300

\* the status code as it is written in decimal
StatusDigits(status) ==
    CASE status = 200 -> <<"2", "0", "0">>
      [] status = 299 -> <<"2", "9", "9">>
      [] status = 300 -> <<"3", "0", "0">>
      [] status = 404 -> <<"4", "0", "4">>
      [] status = 500 -> <<"5", "0", "0">>

\* the body texts of the model that are JSON texts
WellFormedTexts ==
    { PetText, <<"{", "}">>, <<"[", "1", ",", "n", "u", "l", "l", "]">>,
      <<"n", "u", "l", "l">> }

\* a value JSON can denote: no undefined and no cycle anywhere in it
RECURSIVE IsJsonValue(_)
IsJsonValue(v) ==
    /\ v.t \in {"null", "bool", "num", "str", "arr", "obj"}
    /\ \A i \in 1..Len(v.items) : IsJsonValue(v.items[i])
    /\ \A i \in 1..Len(v.members) : IsJsonValue(v.members[i].v)

HasHeader(headers, name) == \E h \in headers : h[1] = name

RejectedByStatus(call) ==
    /\ call.pc = "rejected"
    /\ Received(call)
    /\ ~SuccessStatus(call.response.status)

(***************************************************************************)
(* Properties of the dispatcher, checked under Spec.                       *)
(***************************************************************************)
\* C1: a verb operation invoked with a route that is not in
\* routesFor(schema, verb) fails with a ContractError and performs no
\* network call.
C1_ContractErrorBeforeFetch ==
    \A c \in CallIds :
        (Invoked(calls[c]) /\ calls[c].endpoint \notin routesFor(schema, calls[c].method))
        => /\ calls[c].fetches = 0
           /\ calls[c].pc = "rejected"
           /\ calls[c].error.name = "ContractError"

\* C5: a call whose response status is outside [200,300) rejects, for every
\* such status and whether or not the response body is well-formed JSON; it
\* never resolves with a value and the body is not read.
C5_NonSuccessRejects ==
    \A c \in CallIds :
        (Received(calls[c]) /\ ~SuccessStatus(calls[c].response.status))
        => /\ calls[c].pc = "rejected"
           /\ calls[c].value = Undefined
           /\ calls[c].reads = 0

C5_Witness ==
    \E c \in CallIds :
        /\ calls[c].pc = "rejected"
        /\ calls[c].response.status = 404
        /\ calls[c].response.text = PetText

\* C6: a call whose response status is in [200,300) and whose body is a JSON
\* text resolves, once the body is read, with exactly the value the text
\* denotes: a JSON value whose serialization is the body text.
C6_SuccessResolvesDecoded ==
    \A c \in CallIds :
        (/\ Settled(calls[c])
         /\ Received(calls[c])
         /\ SuccessStatus(calls[c].response.status)
         /\ calls[c].response.text \in WellFormedTexts)
        => /\ calls[c].pc = "resolved"
           /\ IsJsonValue(calls[c].value)
           /\ Serialize(calls[c].value) = calls[c].response.text

C6_Witness ==
    \E c \in CallIds :
        /\ calls[c].pc = "resolved"
        /\ calls[c].response.status = 299
        /\ calls[c].response.text = <<"n", "u", "l", "l">>
        /\ calls[c].value = JNull

\* C7: the message of the error a call rejects with on a non-2xx status
\* contains the status code, written in decimal.
C7_MessageContainsStatus ==
    \A c \in CallIds :
        RejectedByStatus(calls[c])
        => Contains(calls[c].error.message, StatusDigits(calls[c].response.status))

C7_Witness ==
    \E c \in CallIds :
        /\ RejectedByStatus(calls[c])
        /\ calls[c].response.status = 404
        /\ Contains(calls[c].error.message, <<"4", "0", "4">>)

\* C8: the error of a call that fails on a non-2xx status carries the status
\* code and the route of that call.
C8_ErrorCarriesRoute ==
    \A c \in CallIds :
        RejectedByStatus(calls[c])
        => /\ Contains(calls[c].error.message, StatusDigits(calls[c].response.status))
           /\ Contains(calls[c].error.message, calls[c].endpoint)

\* C9 (as claimed): every invocation performs exactly one network call.
C9_ExactlyOneFetch ==
    \A c \in CallIds : Invoked(calls[c]) => calls[c].fetches = 1

\* C9 (amended): an invocation whose body argument is absent or can be
\* serialized performs exactly one network call, whatever its outcome; an
\* invocation whose body JSON.stringify throws on performs none.
C9_OneFetchUnlessUnserializable ==
    \A c \in CallIds :
        Invoked(calls[c])
        => calls[c].fetches = (IF HasCycle(calls[c].body) THEN 0 ELSE 1)

C9_Witness ==
    \E c \in CallIds :
        /\ calls[c].pc = "rejected"
        /\ calls[c].error.name = "SyntaxError"
        /\ calls[c].op = "put"
        /\ calls[c].fetches = 1

\* C10: every request sent carries Accept: application/json; it carries
\* Content-Type: application/json and a body exactly when a body argument
\* was supplied; get and delete send neither.
C10_HeadersAndBody ==
    \A c \in CallIds :
        calls[c].fetches > 0
        => LET call == calls[c]
               supplied == call.body # Undefined
           IN /\ <<"Accept", "application/json">> \in call.request.headers
              /\ HasHeader(call.request.headers, "Content-Type") <=> supplied
              /\ <<"Content-Type", "application/json">> \in call.request.headers
                    <=> supplied
              /\ call.request.hasBody <=> supplied
              /\ call.op \in {"get", "delete"}
                    => /\ ~call.request.hasBody
                       /\ ~HasHeader(call.request.headers, "Content-Type")
              /\ Cardinality(call.request.headers) = (IF supplied THEN 2 ELSE 1)

C10_Witness ==
    \E c \in CallIds :
        /\ calls[c].pc = "fetching"
        /\ calls[c].op = "post"
        /\ calls[c].body = PetData
        /\ calls[c].request.hasBody
        /\ <<"Content-Type", "application/json">> \in calls[c].request.headers

\* C13: each operation sends its request with its own verb: get sends GET,
\* post sends POST, put sends PUT, delete sends DELETE.
VerbOf(op) ==
    CASE op = "get" -> "GET"
      [] op = "post" -> "POST"
      [] op = "put" -> "PUT"
      [] op = "delete" -> "DELETE"

C13_OwnVerb ==
    \A c \in CallIds :
        calls[c].fetches > 0
        => /\ calls[c].op \in {"get", "post", "put", "delete"}
           /\ calls[c].request.method = VerbOf(calls[c].op)
           /\ calls[c].request.method \in HttpMethods

C13_Witness ==
    \E c \in CallIds :
        /\ calls[c].fetches > 0
        /\ calls[c].op = "put"
        /\ calls[c].request.method = "PUT"

\* C14: when the transport fails, the call rejects with the transport's own
\* error (name and message unchanged), nothing else of the call changes (no
\* second network call, no response classified, no body read), and the call
\* stays rejected with that error until the caller takes it.
FailedInTransport(call) ==
    /\ call.pc = "rejected"
    /\ call.fetches > 0
    /\ ~Received(call)

UndecodableSuccess(call) ==
    /\ Settled(call)
    /\ Received(call)
    /\ SuccessStatus(call.response.status)
    /\ call.response.text \notin WellFormedTexts

RequestErrorNames ==
    {err.name : err \in TransportErrors}
    \cup {ApiError(st, e).name : st \in Statuses, e \in Endpoints}
    \cup {SyntaxErrorEnd.name, SyntaxErrorToken.name}

C16_ErrorKindsDisjoint ==
    \A c \in CallIds :
        (calls[c].pc = "rejected" /\ calls[c].fetches = 0)
        => calls[c].error.name \notin RequestErrorNames

(***************************************************************************)
(* Properties of the requests sent, checked under SpecRequest.             *)
(***************************************************************************)
\* what decoding can give back of a value: NaN and an undefined array
\* element come back as null, an undefined property does not come back
RECURSIVE JsonImage(_), JsonImageItems(_), JsonImageMembers(_)
JsonImage(v) ==
    CASE v.t \in {"nan", "undefined"} -> JNull
      [] v.t = "arr" -> JArr(JsonImageItems(v.items))
      [] v.t = "obj" -> JObj(JsonImageMembers(v.members))
      [] OTHER -> v

JsonImageItems(items) ==
    IF items = <<>> THEN <<>>
    ELSE <<JsonImage(Head(items))>> \o JsonImageItems(Tail(items))

JsonImageMembers(members) ==
    IF members = <<>> THEN <<>>
    ELSE (IF Head(members).v.t = "undefined" THEN <<>>
          ELSE <<Member(Head(members).k, JsonImage(Head(members).v))>>)
         \o JsonImageMembers(Tail(members))

SentWithBody(call) ==
    /\ call.fetches > 0
    /\ call.op \in {"post", "put"}
    /\ call.body # Undefined

C12_UrlIsBaseThenRoute ==
    \A c \in CallIds :
        calls[c].fetches > 0
        => LET url == calls[c].request.url
           IN /\ Len(url) = Len(baseUrl) + Len(calls[c].endpoint)
              /\ SubSeq(url, 1, Len(baseUrl)) = baseUrl
              /\ SubSeq(url, Len(baseUrl) + 1, Len(url)) = calls[c].endpoint
              /\ ~Contains(url, <<"?">>)

C12_Witness ==
    \E c \in CallIds :
        /\ calls[c].fetches > 0
        /\ baseUrl = SlashBase
        /\ calls[c].endpoint = PetIdRoute
        /\ Contains(calls[c].request.url, <<"o", "/", "/", "p", "e", "t", "/", "{", "p">>)

\* the request was sent with the serialised body argument and the
\* Content-Type header
SentSerialized(call) ==
    /\ call.fetches = 1
    /\ call.request.hasBody
    /\ call.request.body = Serialize(call.body)
    /\ <<"Content-Type", "application/json">> \in call.request.headers

\* the request was sent without body and without Content-Type header
SentBare(call) ==
    /\ call.fetches = 1
    /\ ~call.request.hasBody
    /\ call.request.body = <<>>
    /\ ~HasHeader(call.request.headers, "Content-Type")

\* C25 (as claimed): a post or put with an undefined body sends a request
\* with no body and no Content-Type header and does not fail; with every
\* other body value it sends the serialised body and the Content-Type header.
C25_BodySentUnlessUndefined ==
    \A c \in CallIds :
        (Invoked(calls[c]) /\ calls[c].op \in {"post", "put"})
        => IF calls[c].body = Undefined THEN SentBare(calls[c])
           ELSE SentSerialized(calls[c])

\* C25 (amended): a post or put with an undefined body sends a request with
\* no body and no Content-Type header and does not fail; with every other
\* body value that JSON.stringify serialises (null, false, 0 and the empty
\* string included) it sends the serialised body and the Content-Type
\* header; with a body JSON.stringify throws on it sends nothing and rejects.
C25_BodySentUnlessUndefinedOrCyclic ==
    \A c \in CallIds :
        (Invoked(calls[c]) /\ calls[c].op \in {"post", "put"})
        => CASE calls[c].body = Undefined -> SentBare(calls[c])
             [] HasCycle(calls[c].body) ->
                  /\ calls[c].fetches = 0
                  /\ calls[c].request = NoRequest
                  /\ calls[c].pc = "rejected"
                  /\ calls[c].error = TypeErrorCircular
             [] OTHER -> SentSerialized(calls[c])

C25_Witness ==
    \E c \in CallIds :
        /\ calls[c].op = "put"
        /\ calls[c].body = JStr(<<>>)
        /\ calls[c].request.hasBody
        /\ calls[c].request.body = <<QuoteCh, QuoteCh>>
        /\ HasHeader(calls[c].request.headers, "Content-Type")

(***************************************************************************)
(* Properties of concurrent calls, checked under SpecConcurrent.           *)
(***************************************************************************)
\* what a call's own arguments and its own response determine of its record
OwnOutcome(call) ==
    LET sent == RequestFrom(baseUrl, call.op, call.endpoint, call.method, call.body)
        answered == AfterFetch(sent, call.response.status, call.response.text)
    IN CASE call.pc = "idle" -> IdleCall
         [] call.pc = "fetching" -> sent
         [] call.pc = "reading" -> answered
         [] Settled(call) /\ Received(call) ->
              IF answered.pc = "rejected" THEN answered ELSE AfterJson(answered)
         [] Settled(call) /\ ~Received(call) ->
              IF sent.pc = "rejected" THEN sent
              ELSE [sent EXCEPT !.pc = "rejected", !.error = call.error]

\* C17: with several calls in flight, under every interleaving, each call's
\* request and outcome are those its own route, verb, body and response
\* determine, and a step of one call leaves every other call as it was.
C17_CallsIndependent ==
    /\ [](\A c \in CallIds : calls[c] = OwnOutcome(calls[c]))
    /\ [][\A c, d \in CallIds : (c # d /\ calls'[c] # calls[c]) => calls'[d] = calls[d]]_vars

C17_Witness ==
    \E c, d \in CallIds :
        /\ c # d
        /\ calls[c].pc = "resolved" /\ calls[c].value = PetData
        /\ calls[c].request.url = BuildUrl(baseUrl, PetIdRoute)
        /\ calls[d].pc = "rejected" /\ calls[d].response.status = 404
        /\ calls[d].request.url = BuildUrl(baseUrl, PetRoute)
        /\ calls[d].request.hasBody

\* C18: no call, whatever its outcome, changes the base URL the instance was
\* constructed with or the schema bound to it.
C18_BaseUrlImmutable ==
    [][baseUrl' = baseUrl /\ schema' = schema]_vars

C18_Witness ==
    \E c, d \in CallIds :
        /\ calls[c].pc = "resolved"
        /\ calls[d].pc = "rejected"
        /\ baseUrl = PetstoreBase
        /\ schema = ApiRegistry[baseUrl]

\* C22: a call goes through building and sending the request, classifying
\* the status, decoding the body and returning or raising, in that order and
\* each at most once; once it has returned or raised it takes no step (its
\* record only leaves when the caller has taken the outcome).
C22_LinearPhases ==
    /\ [](\A c \in CallIds : calls[c].fetches <= 1 /\ calls[c].reads <= 1)
    /\ [][\A c \in CallIds :
            LET before == calls[c]
                after == calls'[c]
            IN \/ after = before
               \/ /\ before.pc = "idle"
                  /\ \/ after.pc = "fetching" /\ after.fetches = 1
                     \/ after.pc = "rejected" /\ after.fetches = 0
                  /\ after.reads = 0 /\ after.response = NoResponse
               \/ /\ before.pc = "fetching"
                  /\ \/ after.pc = "reading" /\ after.reads = 1
                     \/ after.pc = "rejected" /\ after.reads = 0
                  /\ after.fetches = before.fetches
                  /\ after.request = before.request
               \/ /\ before.pc = "reading"
                  /\ after.pc \in {"resolved", "rejected"}
                  /\ after.fetches = before.fetches
                  /\ after.reads = before.reads
                  /\ after.request = before.request
                  /\ after.response = before.response
               \/ /\ Settled(before)
                  /\ after = IdleCall]_vars

C22_Witness ==
    \E c \in CallIds :
        /\ calls[c].pc = "resolved"
        /\ calls[c].fetches = 1
        /\ calls[c].reads = 1
        /\ calls[c].response.status = 200

\* C23: the body of a response is read exactly once when its status is in
\* [200,300) and not at all otherwise; no body is read before a response has
\* been received and classified, and none is read a second time.
C23_BodyReadOnce ==
    \A c \in CallIds :
        LET call == calls[c]
        IN /\ call.reads <= 1
           /\ ~Received(call) => call.reads = 0
           /\ Received(call)
                 => /\ call.response.ok = SuccessStatus(call.response.status)
                    /\ call.reads = (IF SuccessStatus(call.response.status) THEN 1 ELSE 0)
                    /\ call.fetches = 1

C23_Witness ==
    \E c, d \in CallIds :
        /\ calls[c].pc = "resolved" /\ calls[c].reads = 1
        /\ calls[c].response.status = 200
        /\ calls[d].pc = "rejected" /\ calls[d].reads = 0
        /\ calls[d].response.status = 404
        /\ calls[d].response.text = PetText

(***************************************************************************)
(* Termination of a call, checked under SpecSettling.                      *)
(***************************************************************************)
\* a call that has been invoked and has not settled
Waiting(call) == Invoked(call) /\ ~Settled(call)

\* C24: if the transport eventually answers or fails and a started body read
\* eventually completes or fails, every call eventually settles; a settled
\* call keeps its one outcome; and a call waits only for the network
\* exchange (request sent, no response yet) or for the body read (started,
\* on a response of status in [200,300)).
C24_EveryCallSettles ==
    /\ \A c \in 1..MaxCalls : Waiting(calls[c]) ~> Settled(calls[c])
    /\ [](\A c \in CallIds :
            Waiting(calls[c])
            => \/ /\ calls[c].pc = "fetching"
                  /\ calls[c].fetches = 1 /\ ~Received(calls[c]) /\ calls[c].reads = 0
               \/ /\ calls[c].pc = "reading"
                  /\ Received(calls[c]) /\ calls[c].response.ok /\ calls[c].reads = 1)
    /\ [][\A c \in CallIds :
            Settled(calls[c]) => calls'[c] \in {calls[c], IdleCall}]_vars

C24_Witness ==
    \E c \in CallIds :
        /\ calls[c].pc = "rejected"
        /\ calls[c].reads = 1
        /\ calls[c].response.status = 299
        /\ calls[c].error = SyntaxErrorEnd
        /\ calls[c].value = Undefined

Occurrences(text, part) ==
    Cardinality({i \in 0..(Len(text) - Len(part)) :
                    SubSeq(text, i + 1, i + Len(part)) = part})

\* the number of keys of the registry file that are the base URL
KeyCount(content, base) ==
    Occurrences(content, <<"'">> \o base \o <<"'", ":">>)
    + Occurrences(content, <<QuoteCh>> \o base \o <<QuoteCh, ":">>)

\* C20: after any sequence of updateRegistry calls on a registry file in
\* which each base URL is a key at most once, each base URL is a key at
\* most once.
C20_BaseUrlRegisteredOnce ==
    \A base \in RegistryBases : KeyCount(registry.content, base) <= 1

\* the entry `'base': name;` as it stands in the registry file
EntryLine(base, name) == <<"'">> \o base \o <<"'", ":", " ">> \o name \o <<";">>

\* the import statement of a schema name, as one line of the file
ImportStatement(name) == Trim(importLine([baseUrl |-> <<>>, schemaName |-> name]))

\* where a text first occurs in another (0 if nowhere)
FirstIndex(text, part) ==
    LET at == {i \in 1..(Len(text) - Len(part) + 1) :
                  SubSeq(text, i, i + Len(part) - 1) = part}
    IN IF at = {} THEN 0 ELSE CHOOSE i \in at : \A j \in at : i <= j

\* the file has an `export interface ApiRegistry { ... }` block
HasBlock(content) ==
    /\ Contains(content, InterfaceHead)
    /\ LET from == FirstIndex(content, InterfaceHead)
       IN \E i, j \in from..Len(content) : i < j /\ content[i] = "{" /\ content[j] = "}"

\* a line that is blank, a // comment or an import statement
PreambleLine(line) ==
    \/ Trim(line) = <<>>
    \/ StartsWith(line, <<"/", "/">>)
    \/ StartsWith(line, <<"i", "m", "p", "o", "r", "t", " ">>)

\* C26: a call of updateRegistry that finds the base URL in the registry
\* file (in double quotes) leaves the file as it was and does not write it.
C26_SkipLeavesFile ==
    [][\A base \in RegistryBases, name \in SchemaNames :
          (/\ UpdateRegistry(base, name)
           /\ Contains(registry.content, <<QuoteCh>> \o base \o <<QuoteCh>>))
          => /\ registry'.content = registry.content
             /\ registry'.writes = registry.writes
             /\ registry'.last = "skipped"]_vars

C26_Witness ==
    /\ registry.last = "skipped"
    /\ registry.content = DoubleQuotedRegistry
    /\ registry.writes = 0

\* C27: a call of updateRegistry with a base URL that is no key of the file,
\* on a file with an ApiRegistry block, writes a file in which that base URL
\* is a key exactly once, mapped to the schema name, inside the block and
\* before every other key, with every other key, entry and import statement
\* of the file still there.
C27_NewEntryFirst ==
    [][\A base \in RegistryBases, name \in SchemaNames :
          (/\ UpdateRegistry(base, name)
           /\ KeyCount(registry.content, base) = 0
           /\ HasBlock(registry.content))
          => LET before == registry.content
                 after == registry'.content
                 at == FirstIndex(after, EntryLine(base, name))
             IN /\ registry'.writes = registry.writes + 1
                /\ KeyCount(after, base) = 1
                /\ Occurrences(after, EntryLine(base, name)) = 1
                /\ FirstIndex(after, InterfaceHead) < at
                /\ \E close \in at..Len(after) : after[close] = "}"
                /\ \A other \in RegistryBases \ {base} :
                      /\ KeyCount(after, other) = KeyCount(before, other)
                      /\ \A n \in SchemaNames :
                            Occurrences(after, EntryLine(other, n))
                               = Occurrences(before, EntryLine(other, n))
                      /\ \A q \in {<<"'">>, <<QuoteCh>>} :
                            LET key == q \o other \o q
                            IN Contains(after, key) => at < FirstIndex(after, key)
                /\ \A n \in SchemaNames :
                      /\ Occurrences(after, ImportStatement(n))
                            >= Occurrences(before, ImportStatement(n))
                      /\ n = name => Occurrences(after, ImportStatement(n)) = 1
                /\ Len(after) > Len(before)]_vars

C27_Witness ==
    /\ registry.last = "written"
    /\ registry.writes = 1
    /\ LET new == EntryLine(<<"h", "t", "t", "p", ":", "/", "/", "b">>, <<"t">>)
           old == EntryLine(<<"h", "t", "t", "p", ":", "/", "/", "a">>, <<"s">>)
       IN /\ Contains(registry.content, new)
          /\ Contains(registry.content, old)
          /\ FirstIndex(registry.content, new) < FirstIndex(registry.content, old)
          /\ Contains(registry.content, ImportStatement(<<"s">>))
          /\ Contains(registry.content, ImportStatement(<<"t">>))

\* C28: a call of updateRegistry on a file without an ApiRegistry block
\* writes the file without error, with no key in it, and with the import
\* statement of the schema as a line that only blank lines, comments and
\* import statements precede.
C28_NoBlockNoEntry ==
    [][\A base \in RegistryBases, name \in SchemaNames :
          (/\ UpdateRegistry(base, name)
           /\ ~Contains(registry.content, InterfaceHead))
          => LET after == registry'.content
                 lines == Split(after)
             IN /\ registry'.last = "written"
                /\ registry'.writes = registry.writes + 1
                /\ \A b \in RegistryBases : KeyCount(after, b) = 0
                /\ ~Contains(after, InterfaceHead)
                /\ \E i \in 1..Len(lines) :
                      /\ lines[i] = ImportStatement(name)
                      /\ \A j \in 1..(i - 1) : PreambleLine(lines[j])
                      /\ \A j \in (i + 1)..Len(lines) : lines[j] # ImportStatement(name)
                /\ \A n \in SchemaNames :
                      Occurrences(after, ImportStatement(n))
                         >= Occurrences(registry.content, ImportStatement(n))]_vars

C28_Witness ==
    /\ registry.last = "written"
    /\ registry.writes = 2
    /\ ~Contains(registry.content, InterfaceHead)
    /\ Contains(registry.content, ImportStatement(<<"s">>))
    /\ Contains(registry.content, ImportStatement(<<"t">>))
    /\ \A b \in RegistryBases : KeyCount(registry.content, b) = 0

(***************************************************************************)
(* Properties of the command-line tool, checked under SpecCli.             *)
(***************************************************************************)
Did(step) == \E i \in 1..Len(cli.trace) : cli.trace[i] = step

\* the place of each step in generateFromOpenApi
Rank(step) ==
    CASE step = "mode" -> 0
      [] step = "url" -> 1
      [] step = "baseUrl" -> 2
      [] step = "schemaName" -> 3
      [] step = "ensureRegistryExists" -> 4
      [] step = "mkdir" -> 5
      [] step = "findBin" -> 6
      [] step = "exec" -> 7
      [] step = "generated" -> 8
      [] step = "updateRegistry" -> 9
      [] step = "throw" -> 10

AllAnswered == Did("url") /\ Did("baseUrl") /\ Did("schemaName")

\* C21: when schema generation fails (generator not found, or its command
\* fails), the run ends with that error rethrown, updateRegistry has not
\* been called and no key has been added to the registry file;
\* updateRegistry is called only once the generator command has completed.
C21_FailureAddsNoEntry ==
    /\ [](cli.pc = "failed"
            => /\ cli.error \in {BinNotFound, CommandFailed}
               /\ cli.exit = 1
               /\ ~Did("updateRegistry")
               /\ registry.writes = 0
               /\ registry.last = "none")
    /\ [](Did("updateRegistry")
            => /\ Did("exec") /\ Did("generated") /\ cli.schemaFile
               /\ ~Did("throw"))
    /\ [][(cli'.pc = "failed" /\ cli.pc # "failed")
            => \A base \in RegistryBases :
                  KeyCount(registry'.content, base) = KeyCount(registry.content, base)]_vars

C21_Witness ==
    /\ cli.pc = "failed"
    /\ cli.error = CommandFailed
    /\ cli.baseUrl = <<"h", "t", "t", "p", ":", "/", "/", "b">>
    /\ registry.content = DocRegistry
    /\ KeyCount(registry.content, cli.baseUrl) = 0

\* C29: in a run of generateFromOpenApi the steps come in the order prompts,
\* ensureRegistryExists, schema directory, generator, updateRegistry; no
\* file or directory is created or modified before the three prompts are
\* answered; and the registry file exists when updateRegistry reads it.
C29_PromptsBeforeEffects ==
    /\ [](cli.mode = "openapi"
            => /\ \A i, j \in 1..Len(cli.trace) :
                     i < j => Rank(cli.trace[i]) < Rank(cli.trace[j])
               /\ Did("ensureRegistryExists") => AllAnswered
               /\ (Did("mkdir") \/ Did("findBin")) => Did("ensureRegistryExists")
               /\ Did("exec") => Did("findBin") /\ cli.schemaDir
               /\ Did("updateRegistry")
                     => /\ Did("ensureRegistryExists") /\ Did("exec")
                        /\ cli.registryExists
               /\ cli.pc \in {"askUrl", "askBaseUrl", "askSchemaName"}
                     => \A i \in 1..Len(cli.trace) : Rank(cli.trace[i]) <= 3)
    /\ [][(/\ cli'.mode = "openapi"
           /\ \/ registry' # registry
              \/ cli'.registryExists # cli.registryExists
              \/ cli'.schemaDir # cli.schemaDir
              \/ cli'.schemaFile # cli.schemaFile)
            => /\ cli.pc \in {"askSchemaName", "exec"}
               /\ \E i \in 1..Len(cli'.trace) : cli'.trace[i] = "schemaName"
               /\ cli'.url # <<>> /\ cli'.baseUrl # <<>> /\ cli'.schemaName # <<>>]_vars

C29_Witness ==
    /\ cli.pc = "done"
    /\ cli.trace = <<"mode", "url", "baseUrl", "schemaName", "ensureRegistryExists",
                     "mkdir", "findBin", "exec", "generated", "updateRegistry">>
    /\ registry.last = "written"
    /\ registry.content # EmptyRegistry

(***************************************************************************)
(* Properties of the contract resolver, checked under SpecResolver.        *)
(***************************************************************************)
\* C2: routesFor(schema, verb) is exactly the set of routes whose operation
\* map has an entry for the verb; a route that declares no verb is in
\* routesFor(schema, verb) for no verb.
C2_RoutesForExact ==
    resolved.kind = "routesFor"
    => /\ \A r \in Endpoints \cup DOMAIN schema \cup resolved.routes :
            r \in resolved.routes
            <=> (r \in DOMAIN schema /\ VerbKey(resolved.verb) \in DOMAIN schema[r])
       /\ \A r \in DOMAIN schema : DOMAIN schema[r] = {} => r \notin resolved.routes

C2_Witness ==
    /\ resolved.kind = "routesFor"
    /\ resolved.verb = "GET"
    /\ PetRoute \in DOMAIN schema /\ DOMAIN schema[PetRoute] = {}
    /\ resolved.routes = {PetIdRoute}

\* C3: bodyShapeFor and responseShapeFor fail with UnknownRoute exactly when
\* the route is absent from the schema, with UnsupportedVerb exactly when the
\* route is present and does not declare the verb, and in no other case.
C3_ResolverFailures ==
    resolved.kind \in {"bodyShapeFor", "responseShapeFor"}
    => LET known == resolved.route \in DOMAIN schema
           declared == known /\ VerbKey(resolved.verb) \in DOMAIN schema[resolved.route]
       IN /\ (~resolved.ok /\ resolved.error = "UnknownRoute") <=> ~known
          /\ (~resolved.ok /\ resolved.error = "UnsupportedVerb") <=> (known /\ ~declared)
          /\ resolved.ok <=> declared

C3_Witness ==
    /\ resolved.kind = "bodyShapeFor"
    /\ resolved.route = PetRoute
    /\ resolved.verb = "GET"
    /\ PetRoute \in DOMAIN schema
    /\ resolved.error = "UnsupportedVerb"

\* C4: for a declared (route, verb), bodyShapeFor returns the request-body
\* shape the operation declares, or absent when it declares none, and
\* responseShapeFor returns the declared response shape, both unchanged.
C4_ShapesRoundTrip ==
    (/\ resolved.kind \in {"bodyShapeFor", "responseShapeFor"}
     /\ resolved.route \in DOMAIN schema
     /\ VerbKey(resolved.verb) \in DOMAIN schema[resolved.route])
    => LET op == schema[resolved.route][VerbKey(resolved.verb)]
       IN /\ resolved.ok
          /\ resolved.kind = "bodyShapeFor"
                => resolved.shape = (IF op.hasBody THEN op.body ELSE "absent")
          /\ resolved.kind = "responseShapeFor" => resolved.shape = op.response

C4_Witness ==
    /\ resolved.kind = "bodyShapeFor"
    /\ resolved.route = PetRoute
    /\ resolved.verb = "POST"
    /\ resolved.ok
    /\ resolved.shape = "NewOrder"

====
